---- MODULE Spec2Model ----
(***************************************************************************)
(* Realtime captions pipeline of src/app.py: audio callback -> audio queue *)
(* -> TranscriberThread (model load with fallback, rolling buffer,         *)
(* windows) -> text queue -> Overlay._on_tick -> label, with the hotkey    *)
(* listener feeding the control queue.                                     *)
(*                                                                         *)
(* Strings are sequences of one-character strings.  Audio samples are      *)
(* numbered in capture order (1, 2, 3, ...), so that a block, the rolling  *)
(* buffer and a window are sequences of sample numbers.                    *)
(***************************************************************************)
EXTENDS Integers, Sequences, FiniteSets, TLC

\* ------------------------------------------------------------ Config
\* Config.block_samples = int(sample_rate * block_seconds), scaled down.
block_samples == 2

\* Config.max_buffer_seconds, scaled down.
max_buffer_seconds == 2

\* A rolling buffer that cannot hold one window.
max_buffer_short == block_samples - 1

\* Config.max_buffer_samples
max_buffer_samples == block_samples * max_buffer_seconds

\* Config.audio_queue_size, scaled down.
audio_queue_size == 2

\* Config.text_queue_size, scaled down.
text_queue_size == 2

control_queue_size == 2

\* ------------------------------------------------------------ bounds
\* Number of audio callbacks the device source delivers in a run.
MaxBlocks == 3

\* The same, in the specification of the three queues.
MaxQueueBlocks == 4

\* Number of calls made on WhisperSettings in a run.
MaxOps == 3

\* ------------------------------------------------------------ strings
SP == " "

RECURSIVE lstrip(_)
lstrip(s) == IF s # <<>> /\ Head(s) = SP THEN lstrip(Tail(s)) ELSE s

RECURSIVE rstrip(_)
rstrip(s) ==
    IF s # <<>> /\ s[Len(s)] = SP THEN rstrip(SubSeq(s, 1, Len(s) - 1)) ELSE s

\* str.strip()
strip(s) == rstrip(lstrip(s))

\* sep.join(parts)
RECURSIVE join(_, _)
join(sep, parts) ==
    IF parts = <<>> THEN <<>>
    ELSE IF Len(parts) = 1 THEN parts[1]
    ELSE parts[1] \o sep \o join(sep, Tail(parts))

\* str.endswith((".", "?", "!"))
endswith(s, suffixes) == s # <<>> /\ s[Len(s)] \in suffixes

SentenceEnd == {".", "?", "!"}

\* The items of a sequence.
Range(ss) == {ss[i] : i \in 1..Len(ss)}

\* ------------------------------------------------------------ queue.Queue
\* A put that jumps the queue.
put_front(q, maxsize, item) ==
    IF Len(q) >= maxsize THEN [full |-> TRUE, q |-> q]
    ELSE [full |-> FALSE, q |-> <<item>> \o q]

\* A put that makes room by evicting the oldest item.
put_evict_oldest(q, maxsize, item) ==
    IF Len(q) >= maxsize THEN [full |-> FALSE, q |-> Append(Tail(q), item)]
    ELSE [full |-> FALSE, q |-> Append(q, item)]

\* put_nowait: raises queue.Full when maxsize items are held.
put_nowait(q, maxsize, item) ==
    IF Len(q) >= maxsize THEN [full |-> TRUE, q |-> q]
    ELSE [full |-> FALSE, q |-> Append(q, item)]

VARIABLES
    settings,         \* _whisper_settings: a WhisperSettings object, with
                      \* made = FALSE before it is constructed
    settings_raised,  \* history: the latest WhisperSettings call raised
    settings_ops,     \* history: number of WhisperSettings calls so far
    tick_i,           \* playground_overlay: the argument of the next tick(i)
    state_buf,        \* playground_overlay: _state["buf"]
    state_clear_next, \* playground_overlay: _state["clear_next"]
    playground_label, \* playground_overlay: the text of label
    label_configs,    \* history: the label.config(text=...) calls of the
                      \* latest tick of the playground
    root_alive,       \* playground_overlay: root is not destroyed
    cfg,              \* main(): cfg, the Config the components are built with
    cfg_pc,           \* main(): "none" before cfg is constructed,
                      \* "constructed", "started" once the worker thread runs
    cuda_available,   \* torch.cuda.is_available()
    worker_pc,        \* position of TranscriberThread.run
    load_attempts,    \* run(): the ordered candidate list
    attempt,          \* run(): index of the candidate of the for loop
    failed,           \* history: indexes of the candidates that failed
    model,            \* self.model: <<>> for None, or the candidate
                      \* constructed last
    device,           \* self.device
    compute_type,     \* self.compute_type
    buffer,           \* run(): the rolling buffer
    window,           \* history: the latest segment handed to
                      \* _transcribe_segment, what came of it, and whether
                      \* the transcription of the segment before it raised
    constructions,    \* history: the candidates whose construction returned
    warmups,          \* history: the warm-up calls, with their windows
    received,         \* history: the blocks run() has dequeued, in order
    emitted,          \* history: the segments handed to _transcribe_segment
    truncated,        \* history: the samples the trim of the buffer removed
    audio_queue,
    unfinished_tasks, \* audio_queue.unfinished_tasks
    text_queue,
    control_queue,
    stop_event,
    overlay_buffer,   \* Overlay._buffer
    label_text,       \* Overlay.label text
    visible,          \* Overlay.isVisible()
    toggles,          \* history: the "toggle" commands the latest tick consumed
    renders,          \* history: the label.setText calls of the latest tick
    sentence,         \* history: the snippets consumed since the latest
                      \* sentence end, as the latest tick started
    rendered_src,     \* history: the source of the snippet rendered last
    pressed,          \* start_hotkey_listener: pressed
    fired,            \* start_hotkey_listener: fired
    rejected,         \* history: the queues that have rejected a put
    next_sample,      \* number of the next sample the device delivers
    blocks,           \* number of audio callbacks so far
    stream_active,    \* the sd.InputStream is started and not stopped
    callback_raised,  \* history: an exception has left audio_callback
    app_running       \* app.exec() has not returned

worker_vars ==
    <<worker_pc, load_attempts, attempt, failed, model, device, compute_type,
      buffer, window, constructions, warmups, received, emitted, truncated>>

overlay_vars ==
    <<overlay_buffer, label_text, visible, toggles, renders, sentence,
      rendered_src>>

hotkey_vars == <<pressed, fired>>

config_vars == <<cfg, cfg_pc>>

settings_vars == <<settings, settings_raised, settings_ops>>

playground_vars ==
    <<tick_i, state_buf, state_clear_next, playground_label, label_configs,
      root_alive>>

vars ==
    <<settings, settings_raised, settings_ops, tick_i, state_buf, state_clear_next, playground_label, label_configs,
      root_alive, cfg, cfg_pc, cuda_available, worker_pc, load_attempts, attempt, failed, model, device,
      compute_type, buffer, window, constructions, warmups, received,
      emitted, truncated,
      audio_queue, unfinished_tasks, text_queue,
      control_queue, stop_event, overlay_buffer, label_text, visible, toggles,
      renders,
      sentence, rendered_src, pressed, fired, rejected, next_sample,
      blocks, stream_active, callback_raised, app_running>>

\* ------------------------------------------------------------ construction
\* Before the first window: no segment, no text.
NoWindow == [samples |-> <<>>, ok |-> TRUE, text |-> <<>>, after_error |-> FALSE]

Listening == <<"L", "i", "s", "t", "e", "n", "i", "n", "g">>

\* ------------------------------------------------------------ WhisperSettings
\* The field defaults of the dataclass, the class-level ones included;
\* temperatures in tenths.  made is FALSE while no object exists.
NoSettings ==
    [made |-> FALSE, model_size |-> "base", language |-> "en",
     task |-> "transcribe", temperature |-> 0,
     VALID_SIZES |-> {"tiny", "base", "small", "medium", "large"},
     VALID_TASKS |-> {"transcribe", "translate"},
     TEMP_MIN |-> 0, TEMP_MAX |-> 10]

\* A call that returned leaving the object s, a call that raised leaving it.
Returned(s) == [s |-> s, raised |-> FALSE]

Raised(s) == [s |-> s, raised |-> TRUE]

\* _validate_model_size, _validate_task, _validate_temperature: TRUE when
\* they return, FALSE when they raise ValueError
validate_model_size(s, size) == size \in s.VALID_SIZES

validate_task(s, task) == task \in s.VALID_TASKS

validate_temperature(s, temp) == s.TEMP_MIN <= temp /\ temp <= s.TEMP_MAX

\* WhisperSettings(model_size, language, task, temperature): the generated
\* __init__ and __post_init__; when a validation raises there is no object
post_init(size, lang, task, temp) ==
    LET s == [NoSettings EXCEPT !.made = TRUE, !.model_size = size,
                                !.language = lang, !.task = task,
                                !.temperature = temp]
    IN  IF /\ validate_model_size(s, size)
           /\ validate_task(s, task)
           /\ validate_temperature(s, temp)
        THEN Returned(s) ELSE Raised(NoSettings)

set_model_size(s, size) ==
    IF validate_model_size(s, size)
    THEN Returned([s EXCEPT !.model_size = size]) ELSE Raised(s)

set_language(s, lang) == Returned([s EXCEPT !.language = lang])

set_task(s, task) ==
    IF validate_task(s, task)
    THEN Returned([s EXCEPT !.task = task]) ELSE Raised(s)

set_temperature(s, temp) ==
    IF validate_temperature(s, temp)
    THEN Returned([s EXCEPT !.temperature = temp]) ELSE Raised(s)

\* The attributes hasattr finds that update is called with.
Attributes ==
    {"model_size", "language", "task", "temperature", "_VALID_SIZES",
     "_VALID_TASKS", "_TEMP_MIN", "_TEMP_MAX"}

\* One key of update: the set_<key> method when there is one, else setattr.
update_key(s, key, value) ==
    IF key \notin Attributes THEN Raised(s)
    ELSE CASE key = "model_size" -> set_model_size(s, value)
           [] key = "language" -> set_language(s, value)
           [] key = "task" -> set_task(s, value)
           [] key = "temperature" -> set_temperature(s, value)
           [] key = "_VALID_SIZES" -> Returned([s EXCEPT !.VALID_SIZES = value])
           [] key = "_VALID_TASKS" -> Returned([s EXCEPT !.VALID_TASKS = value])
           [] key = "_TEMP_MIN" -> Returned([s EXCEPT !.TEMP_MIN = value])
           [] key = "_TEMP_MAX" -> Returned([s EXCEPT !.TEMP_MAX = value])

\* update(**kwargs): the keys in the order they are passed; a key that
\* raises ends the loop with the keys before it already applied
RECURSIVE update(_, _)
update(s, kwargs) ==
    IF kwargs = <<>> THEN Returned(s)
    ELSE LET r == update_key(s, Head(kwargs).key, Head(kwargs).value)
         IN  IF r.raised THEN r ELSE update(r.s, Tail(kwargs))

\* ------------------------------------------------------------ Config
ConfigFields ==
    {"sample_rate", "block_seconds", "model_size", "language", "task",
     "audio_queue_size", "text_queue_size", "control_queue_size",
     "gui_poll_interval_ms", "max_buffer_seconds", "beam_size", "temperature",
     "vad_filter"}

\* The defaults of the dataclass fields; temperature in tenths.
DefaultConfig ==
    [sample_rate |-> 16000, block_seconds |-> 1, model_size |-> "small",
     language |-> "en", task |-> "transcribe", audio_queue_size |-> 8,
     text_queue_size |-> 4, control_queue_size |-> 2,
     gui_poll_interval_ms |-> 50, max_buffer_seconds |-> 10, beam_size |-> 1,
     temperature |-> 0, vad_filter |-> FALSE]

\* The values a caller passes for a field, when it passes one.
ConfigChoices ==
    [sample_rate |-> <<0>>, block_seconds |-> <<0>>,
     model_size |-> <<"huge", "tiny">>, language |-> <<>>,
     task |-> <<"summarize">>, audio_queue_size |-> <<0>>,
     text_queue_size |-> <<0>>, control_queue_size |-> <<0>>,
     gui_poll_interval_ms |-> <<0>>, max_buffer_seconds |-> <<0>>,
     beam_size |-> <<0>>, temperature |-> <<11, 0 - 1, 5>>,
     vad_filter |-> <<>>]

\* The keyword arguments of a call: 0 for a field left out, else the number
\* of the choice.
ConfigKwargs ==
    [sample_rate : 0..1, block_seconds : 0..1, model_size : 0..2,
     language : {0}, task : 0..1, audio_queue_size : 0..1,
     text_queue_size : 0..1, control_queue_size : 0..1,
     gui_poll_interval_ms : 0..1, max_buffer_seconds : 0..1,
     beam_size : 0..1, temperature : 0..3, vad_filter : {0}]

\* Config(**kwargs): the generated __init__ of the frozen dataclass stores
\* every field, the default where none is passed; there is no __post_init__.
Config(k) ==
    [f \in ConfigFields |->
        IF k[f] = 0 THEN DefaultConfig[f] ELSE ConfigChoices[f][k[f]]]

\* main(): cfg = Config(), every field at its default
NoKwargs == [f \in ConfigFields |-> 0]

\* TranscriberThread.__init__ and main() up to app.exec()
Init ==
    /\ cfg = Config(NoKwargs)
    /\ cfg_pc = "started"
    /\ settings = NoSettings
    /\ settings_raised = FALSE
    /\ settings_ops = 0
    /\ tick_i = 0
    /\ state_buf = <<>>
    /\ state_clear_next = FALSE
    /\ playground_label = Listening \o <<"...">>
    /\ label_configs = <<>>
    /\ root_alive = TRUE
    /\ cuda_available \in BOOLEAN
    /\ worker_pc = "start"
    /\ load_attempts = <<>>
    /\ attempt = 0
    /\ failed = {}
    /\ model = <<>>
    /\ device = IF cuda_available THEN "cuda" ELSE "cpu"
    /\ compute_type = IF cuda_available THEN "int8_float16" ELSE "int8"
    /\ buffer = <<>>
    /\ window = NoWindow
    /\ constructions = <<>>
    /\ warmups = <<>>
    /\ received = <<>>
    /\ emitted = <<>>
    /\ truncated = {}
    /\ audio_queue = <<>>
    /\ unfinished_tasks = 0
    /\ text_queue = <<>>
    /\ control_queue = <<>>
    /\ stop_event = FALSE
    /\ overlay_buffer = <<>>
    /\ label_text = Listening
    /\ visible = TRUE
    /\ toggles = 0
    /\ renders = <<>>
    /\ sentence = <<>>
    /\ rendered_src = 0
    /\ pressed = {}
    /\ fired = FALSE
    /\ rejected = {}
    /\ next_sample = 1
    /\ blocks = 0
    /\ stream_active = TRUE
    /\ callback_raised = FALSE
    /\ app_running = TRUE

\* ------------------------------------------------------------ TranscriberThread
\* run(): the fallback sequence, highest-performance candidate first
LoadAttempts(dev) ==
    (IF dev = "cuda"
        THEN << <<"cuda", "int8_float16">>, <<"cuda", "int8">>,
                <<"cuda", "float16">> >>
        ELSE <<>>)
    \o << <<"cpu", "int8">> >>

BuildLoadAttempts ==
    /\ worker_pc = "start"
    /\ load_attempts' = LoadAttempts(device)
    /\ attempt' = 1
    /\ worker_pc' = "construct"
    /\ UNCHANGED <<settings_vars, rejected, received, emitted, truncated, constructions, warmups, config_vars, callback_raised, playground_vars, cuda_available,
                   failed, model, device, compute_type, buffer,
                   window, audio_queue, unfinished_tasks, text_queue,
                   control_queue, stop_event, overlay_vars, hotkey_vars,
                   next_sample, blocks, stream_active, app_running>>

\* A loop that skips the candidate after a failed one.
next_attempt_skips(i) == i + 2

\* The candidate the for loop takes after a failed one.
NextAttempt(i) == i + 1

\* np.zeros(n)
Zeros(n) == [i \in 1..n |-> 0]

\* A construction that takes the engine into the loop without a warm-up.
construct_without_warmup ==
    /\ worker_pc = "construct"
    /\ attempt <= Len(load_attempts)
    /\ model' = load_attempts[attempt]
    /\ constructions' = Append(constructions, attempt)
    /\ device' = load_attempts[attempt][1]
    /\ compute_type' = load_attempts[attempt][2]
    /\ worker_pc' = "loop"
    /\ UNCHANGED <<settings_vars, attempt, failed, rejected, received, emitted, truncated,
                   warmups, config_vars, callback_raised, playground_vars, cuda_available,
                   load_attempts, buffer, window, audio_queue,
                   unfinished_tasks, text_queue, control_queue, stop_event,
                   overlay_vars, hotkey_vars, next_sample, blocks,
                   stream_active, app_running>>

\* WhisperModel(model_size, device=dev, compute_type=ctype): returns or raises
Construct ==
    /\ worker_pc = "construct"
    /\ attempt <= Len(load_attempts)
    /\ \E ok \in BOOLEAN :
        IF ok
        THEN /\ model' = load_attempts[attempt]
             /\ constructions' = Append(constructions, attempt)
             /\ device' = load_attempts[attempt][1]
             /\ compute_type' = load_attempts[attempt][2]
             /\ worker_pc' = "warmup"
             /\ UNCHANGED <<attempt, failed>>
        ELSE /\ failed' = failed \cup {attempt}
             /\ attempt' = NextAttempt(attempt)
             /\ UNCHANGED <<model, device, compute_type, worker_pc,
                            constructions>>
    /\ UNCHANGED <<settings_vars, rejected, received, emitted, truncated, warmups, config_vars, callback_raised, playground_vars, cuda_available,
                   load_attempts, buffer, window, audio_queue,
                   unfinished_tasks, text_queue, control_queue, stop_event,
                   overlay_vars, hotkey_vars, next_sample, blocks,
                   stream_active, app_running>>

\* self.model.transcribe(np.zeros(block_samples), ...): returns or raises
WarmUp ==
    /\ worker_pc = "warmup"
    /\ warmups' = Append(warmups, [candidate |-> attempt,
                                   samples |-> Zeros(block_samples)])
    /\ \E ok \in BOOLEAN :
        IF ok
        THEN /\ worker_pc' = "loop"
             /\ UNCHANGED <<attempt, failed>>
        ELSE /\ failed' = failed \cup {attempt}
             /\ attempt' = NextAttempt(attempt)
             /\ worker_pc' = "construct"
    /\ UNCHANGED <<settings_vars, rejected, received, emitted, truncated, constructions, config_vars, callback_raised, playground_vars, cuda_available,
                   load_attempts, model, device, compute_type,
                   buffer, window, audio_queue, unfinished_tasks, text_queue,
                   control_queue, stop_event, overlay_vars, hotkey_vars,
                   next_sample, blocks, stream_active, app_running>>

\* A worker that goes on to the loop without an engine.
all_loads_failed_goes_on ==
    /\ worker_pc = "construct"
    /\ attempt > Len(load_attempts)
    /\ worker_pc' = "loop"
    /\ UNCHANGED <<settings_vars, rejected, received, emitted, truncated, constructions, warmups, config_vars, callback_raised, playground_vars, cuda_available,
                   load_attempts, attempt, failed,
                   model, device, compute_type, buffer, window, audio_queue,
                   unfinished_tasks, text_queue, control_queue, stop_event,
                   overlay_vars, hotkey_vars, next_sample, blocks,
                   stream_active, app_running>>

\* if not loaded: self.stop_event.set(); return
AllLoadsFailed ==
    /\ worker_pc = "construct"
    /\ attempt > Len(load_attempts)
    /\ stop_event' = TRUE
    /\ worker_pc' = "init_failed"
    /\ UNCHANGED <<settings_vars, rejected, received, emitted, truncated, constructions, warmups, config_vars, callback_raised, playground_vars, cuda_available,
                   load_attempts, attempt, failed, model,
                   device, compute_type, buffer, window, audio_queue,
                   unfinished_tasks, text_queue, control_queue, overlay_vars,
                   hotkey_vars, next_sample, blocks, stream_active,
                   app_running>>

\* while not self.stop_event.is_set():
LoopTest ==
    /\ worker_pc = "loop"
    /\ worker_pc' = IF stop_event THEN "exited" ELSE "get"
    /\ UNCHANGED <<settings_vars, rejected, received, emitted, truncated, constructions, warmups, config_vars, callback_raised, playground_vars, cuda_available,
                   load_attempts, attempt, failed, model,
                   device, compute_type, buffer, window, audio_queue,
                   unfinished_tasks, text_queue, control_queue, stop_event,
                   overlay_vars, hotkey_vars, next_sample, blocks,
                   stream_active, app_running>>

\* An accumulation that never trims.
accumulate_untrimmed(buf, chunk) == buf \o chunk

\* buffer = concatenate((buffer, chunk)); keep the last max_buffer_samples
Accumulate(buf, chunk) ==
    LET b == buf \o chunk
    IN  IF Len(b) > max_buffer_samples
        THEN SubSeq(b, Len(b) - max_buffer_samples + 1, Len(b))
        ELSE b

\* chunk = self.audio_queue.get(timeout=0.5), then the append and the trim;
\* on queue.Empty: continue
Get ==
    /\ worker_pc = "get"
    /\ IF audio_queue # <<>>
       THEN /\ buffer' = Accumulate(buffer, Head(audio_queue))
            /\ received' = Append(received, Head(audio_queue))
            /\ truncated' = truncated \cup
                   (Range(buffer \o Head(audio_queue)) \ Range(buffer'))
            /\ audio_queue' = Tail(audio_queue)
            /\ worker_pc' = "windows"
       ELSE /\ worker_pc' = "loop"
            /\ UNCHANGED <<buffer, received, truncated, audio_queue>>
    /\ UNCHANGED <<settings_vars, rejected, emitted, constructions, warmups, config_vars, callback_raised, playground_vars, cuda_available,
                   load_attempts, attempt, failed, model,
                   device, compute_type, window, unfinished_tasks, text_queue,
                   control_queue, stop_event, overlay_vars, hotkey_vars,
                   next_sample, blocks, stream_active, app_running>>

\* What self.model.transcribe returns for a window: the texts of its segments.
SegmentLists ==
    { <<>>,
      << <<SP>> >>,
      << <<SP, "a">> >>,
      << <<SP, "b", ".">> >>,
      << <<SP, "a">>, <<SP, "c", "?">> >> }

\* text = " ".join(s.text for s in segments).strip()
SnippetText(segments) == strip(join(<<SP>>, segments))

\* A slice that takes the newest samples of the buffer.
segment_newest(buf) == SubSeq(buf, Len(buf) - block_samples + 1, Len(buf))

\* The window the inner loop slices next, and what it leaves.
Segment(buf) == SubSeq(buf, 1, block_samples)

\* A remainder that keeps the last sample of the window.
rest_overlaps(buf) == SubSeq(buf, block_samples, Len(buf))

\* buffer = buffer[block_samples:]
Rest(buf) == SubSeq(buf, block_samples + 1, Len(buf))

\* A _transcribe_segment that lets the engine's exception through.
propagates_errors(raised) == raised

\* _transcribe_segment: except Exception logs what the transcription raised;
\* nothing reaches run().
Propagates(raised) == FALSE

\* One pass of the inner while: slice a window, _transcribe_segment(segment),
\* audio_queue.task_done().  task_done raises ValueError when no task is
\* unfinished, and nothing in run() catches it.  The engine returns one of
\* the segment lists results, or raises.
ProcessWindow(results) ==
    /\ worker_pc = "windows"
    /\ Len(buffer) >= block_samples
    /\ buffer' = Rest(buffer)
    /\ emitted' = Append(emitted, Segment(buffer))
    /\ \E raised \in BOOLEAN, segments \in results :
        LET text == SnippetText(segments)
            put == put_nowait(text_queue, text_queue_size,
                              [text |-> text, src |-> Head(Segment(buffer))])
        IN  IF raised
            THEN /\ window' = [samples |-> Segment(buffer), ok |-> FALSE,
                               text |-> <<>>, after_error |-> ~window.ok]
                 /\ UNCHANGED text_queue
            ELSE /\ window' = [samples |-> Segment(buffer), ok |-> TRUE,
                               text |-> text, after_error |-> ~window.ok]
                 /\ text_queue' = IF text # <<>> THEN put.q ELSE text_queue
    /\ IF Propagates(~window'.ok) \/ unfinished_tasks = 0
       THEN /\ worker_pc' = "crashed"
            /\ UNCHANGED unfinished_tasks
       ELSE /\ unfinished_tasks' = unfinished_tasks - 1
            /\ UNCHANGED worker_pc
    /\ rejected' = IF window'.text # <<>> /\ Len(text_queue) >= text_queue_size
                   THEN rejected \cup {"text"} ELSE rejected
    /\ UNCHANGED <<settings_vars, received, truncated, constructions, warmups, config_vars, callback_raised, playground_vars, cuda_available, load_attempts,
                   attempt, failed, model,
                   device, compute_type, audio_queue, control_queue,
                   stop_event, overlay_vars, hotkey_vars, next_sample, blocks,
                   stream_active, app_running>>

\* the inner while ends: back to the test of the outer while
WindowsDone ==
    /\ worker_pc = "windows"
    /\ Len(buffer) < block_samples
    /\ worker_pc' = "loop"
    /\ UNCHANGED <<settings_vars, rejected, received, emitted, truncated, constructions, warmups, config_vars, callback_raised, playground_vars, cuda_available,
                   load_attempts, attempt, failed, model,
                   device, compute_type, buffer, window, audio_queue,
                   unfinished_tasks, text_queue, control_queue, stop_event,
                   overlay_vars, hotkey_vars, next_sample, blocks,
                   stream_active, app_running>>

Worker(results) ==
    \/ BuildLoadAttempts
    \/ Construct
    \/ WarmUp
    \/ AllLoadsFailed
    \/ LoopTest
    \/ Get
    \/ ProcessWindow(results)
    \/ WindowsDone

\* ------------------------------------------------------------ Overlay
\* A control loop that flips the visibility once for all pending commands.
drain_flips_once(q, vis) == IF q = <<>> THEN vis ELSE ~vis

\* the control loop of _on_tick: every pending "toggle" flips the visibility
RECURSIVE DrainControl(_, _)
DrainControl(q, vis) ==
    IF q = <<>> THEN vis
    ELSE DrainControl(Tail(q), IF Head(q) = "toggle" THEN ~vis ELSE vis)

\* An append that leaves the snippet out.
append_ignores_snippet(buf, snippet) == buf

\* self._buffer = f"{self._buffer} {snippet}".strip()
AppendSnippet(buf, snippet) == strip(buf \o <<SP>> \o snippet)

\* A tick that never clears the buffer.
keep_always(buf, snippet) == buf

\* the buffer _on_tick keeps after the label is set
KeepBuffer(buf, snippet) ==
    IF endswith(snippet, SentenceEnd) THEN <<>> ELSE buf

\* the text loop of _on_tick, one snippet after the other, in queue order
RECURSIVE DrainText(_, _)
DrainText(q, st) ==
    IF q = <<>> THEN st
    ELSE LET snippet == strip(Head(q).text)
             shown == AppendSnippet(st.buf, snippet)
         IN  DrainText(Tail(q),
                 [buf |-> KeepBuffer(shown, snippet),
                  label |-> shown,
                  log |-> Append(st.log,
                             [snippet |-> Head(q).text, src |-> Head(q).src,
                              shown |-> shown])])

\* The snippets of a tick's label.setText calls.
Snippets(log) == [i \in 1..Len(log) |-> log[i].snippet]

\* history: the snippets of ss that follow its latest sentence-terminal one
RECURSIVE SinceSentenceEnd(_)
SinceSentenceEnd(ss) ==
    IF ss = <<>> \/ endswith(ss[Len(ss)], SentenceEnd) THEN <<>>
    ELSE Append(SinceSentenceEnd(SubSeq(ss, 1, Len(ss) - 1)), ss[Len(ss)])

\* Overlay._on_tick, run by the QTimer while the event loop runs
Tick ==
    /\ app_running
    /\ LET st == DrainText(text_queue,
                     [buf |-> overlay_buffer, label |-> label_text,
                      log |-> <<>>])
       IN  /\ visible' = DrainControl(control_queue, visible)
           /\ toggles' = Len(SelectSeq(control_queue,
                                        LAMBDA cmd : cmd = "toggle"))
           /\ control_queue' = <<>>
           /\ overlay_buffer' = st.buf
           /\ label_text' = st.label
           /\ renders' = st.log
           /\ rendered_src' = IF st.log = <<>> THEN rendered_src
                              ELSE st.log[Len(st.log)].src
           /\ text_queue' = <<>>
    /\ sentence' = SinceSentenceEnd(sentence \o Snippets(renders))
    /\ UNCHANGED <<settings_vars, rejected, config_vars, callback_raised, playground_vars, cuda_available, worker_vars, audio_queue, unfinished_tasks,
                   stop_event, hotkey_vars, next_sample, blocks,
                   stream_active, app_running>>

\* ------------------------------------------------------------ hotkey listener
combo == {"ctrl_l", "shift", "c"}

Keys == combo

\* The keys of the keyboard: those of the chord and another one.
AllKeys == combo \cup {"x"}

\* An on_press without the debounce: it fires at every press with the chord
\* complete.
on_press_repeats(k) ==
    /\ app_running
    /\ pressed' = pressed \cup {k}
    /\ IF combo \subseteq pressed'
       THEN LET put == put_nowait(control_queue, control_queue_size, "toggle")
            IN  /\ fired' = TRUE
                /\ control_queue' = put.q
                /\ rejected' = IF put.full THEN rejected \cup {"control"}
                               ELSE rejected
       ELSE UNCHANGED <<fired, control_queue, rejected>>
    /\ UNCHANGED <<settings_vars, config_vars, callback_raised, playground_vars, cuda_available, worker_vars,
                   audio_queue, unfinished_tasks, text_queue, stop_event,
                   overlay_vars, next_sample, blocks, stream_active,
                   app_running>>

\* on_press(k)
on_press(k) ==
    /\ app_running
    /\ pressed' = pressed \cup {k}
    /\ IF ~fired /\ combo \subseteq pressed'
       THEN LET put == put_nowait(control_queue, control_queue_size, "toggle")
            IN  /\ fired' = TRUE
                /\ control_queue' = put.q
                /\ rejected' = IF put.full THEN rejected \cup {"control"}
                               ELSE rejected
       ELSE UNCHANGED <<fired, control_queue, rejected>>
    /\ UNCHANGED <<settings_vars, config_vars, callback_raised, playground_vars, cuda_available, worker_vars, audio_queue, unfinished_tasks,
                   text_queue, stop_event, overlay_vars, next_sample, blocks,
                   stream_active, app_running>>

\* on_release(k)
on_release(k) ==
    /\ app_running
    /\ pressed' = pressed \ {k}
    /\ fired' = IF fired /\ ~(combo \subseteq pressed') THEN FALSE ELSE fired
    /\ UNCHANGED <<settings_vars, rejected, config_vars, callback_raised, playground_vars, cuda_available, worker_vars, audio_queue, unfinished_tasks,
                   text_queue, control_queue, stop_event, overlay_vars,
                   next_sample, blocks, stream_active, app_running>>

\* ------------------------------------------------------------ capture
\* The block of n frames the device delivers next (after the downmix to mono,
\* which keeps the number and the order of the frames).
Block(n) == [i \in 1..n |-> next_sample + i - 1]

\* audio_callback(indata, status, audio_queue) for a block of n frames, the
\* device delivering at most limit blocks.  The downmix and the conversion
\* (indata.mean, astype, copy) raise or not, as outcomes allows; only
\* queue.Full is caught, so what they raise leaves the callback, and what the
\* stream does then is up to the device library.
Callback(n, limit, outcomes) ==
    /\ stream_active
    /\ blocks < limit
    /\ \E conversion_raises \in outcomes :
        IF conversion_raises
        THEN /\ callback_raised' = TRUE
             /\ stream_active' \in BOOLEAN
             /\ UNCHANGED <<audio_queue, unfinished_tasks, rejected>>
        ELSE LET put == put_nowait(audio_queue, audio_queue_size, Block(n))
             IN  /\ audio_queue' = put.q
                 /\ unfinished_tasks' = IF put.full THEN unfinished_tasks
                                        ELSE unfinished_tasks + 1
                 /\ rejected' = IF put.full THEN rejected \cup {"audio"}
                                ELSE rejected
                 /\ UNCHANGED <<callback_raised, stream_active>>
    /\ next_sample' = next_sample + n
    /\ blocks' = blocks + 1
    /\ UNCHANGED <<settings_vars, config_vars, playground_vars, cuda_available, worker_vars, text_queue,
                   control_queue, stop_event, overlay_vars, hotkey_vars,
                   app_running>>

\* The callback as the stream of main() calls it: indata is the float32
\* array of the device, which the downmix and the conversion accept.
audio_callback(n, limit) == Callback(n, limit, {FALSE})

\* ------------------------------------------------------------ main
\* the SIGINT / SIGTERM handler: stop_evt.set()
Signal ==
    /\ app_running
    /\ stop_event' = TRUE
    /\ UNCHANGED <<settings_vars, rejected, config_vars, callback_raised, playground_vars, cuda_available, worker_vars, audio_queue, unfinished_tasks,
                   text_queue, control_queue, overlay_vars, hotkey_vars,
                   next_sample, blocks, stream_active, app_running>>

\* app.exec() returns; finally: stop_evt.set(); stream.stop(); stream.close()
Quit ==
    /\ app_running
    /\ app_running' = FALSE
    /\ stop_event' = TRUE
    /\ stream_active' = FALSE
    /\ UNCHANGED <<settings_vars, rejected, config_vars, callback_raised, playground_vars, cuda_available, worker_vars, audio_queue, unfinished_tasks,
                   text_queue, control_queue, overlay_vars, hotkey_vars,
                   next_sample, blocks>>

\* ------------------------------------------------------------ playground_overlay
\* sentences, each already split into its words, scaled down
sentences ==
    << << <<"a">>, <<"b">>, <<"c">>, <<"d", ".">> >>,
       << <<"e">>, <<"f">> >>,
       << <<"g", "!">> >> >>

\* step = 3
step == 3

\* The pieces of one sentence: step words each, joined by spaces, the last
\* one with a "." added when it ends with no punctuation.
RECURSIVE Pieces(_)
Pieces(words) ==
    IF words = <<>> THEN <<>>
    ELSE LET n == IF Len(words) < step THEN Len(words) ELSE step
             piece == join(<<SP>>, SubSeq(words, 1, n))
         IN  << IF n = Len(words) /\ ~endswith(piece, SentenceEnd)
                THEN piece \o <<".">> ELSE piece >>
             \o Pieces(SubSeq(words, n + 1, Len(words)))

RECURSIVE PiecesOfAll(_)
PiecesOfAll(ss) ==
    IF ss = <<>> THEN <<>> ELSE Pieces(Head(ss)) \o PiecesOfAll(Tail(ss))

chunks == PiecesOfAll(sentences)

\* A tick that clears the label as soon as the sentence is complete.
tick_clears_at_sentence_end ==
    /\ root_alive
    /\ LET i == IF tick_i >= Len(chunks) THEN 0 ELSE tick_i
           ch == chunks[i + 1]
           buf == strip(state_buf \o <<SP>> \o ch)
       IN  /\ state_buf' = IF endswith(ch, SentenceEnd) THEN <<>> ELSE buf
           /\ playground_label' = state_buf'
           /\ label_configs' = <<buf, state_buf'>>
           /\ state_clear_next' = FALSE
           /\ tick_i' = i + 1
    /\ UNCHANGED <<settings_vars, root_alive, config_vars, rejected, callback_raised,
                   cuda_available, worker_vars, audio_queue, unfinished_tasks,
                   text_queue, control_queue, stop_event, overlay_vars,
                   hotkey_vars, next_sample, blocks, stream_active,
                   app_running>>

\* tick(i), run by root.after while the window lives
tick ==
    /\ root_alive
    /\ LET i == IF tick_i >= Len(chunks) THEN 0 ELSE tick_i
           ch == chunks[i + 1]
           buf == strip((IF state_clear_next THEN <<>> ELSE state_buf)
                        \o <<SP>> \o ch)
       IN  /\ state_buf' = buf
           /\ playground_label' = buf
           /\ label_configs' =
                (IF state_clear_next THEN << <<>> >> ELSE <<>>) \o <<buf>>
           /\ state_clear_next' = endswith(ch, SentenceEnd)
           /\ tick_i' = i + 1
    /\ UNCHANGED <<settings_vars, root_alive, config_vars, rejected, callback_raised,
                   cuda_available, worker_vars, audio_queue, unfinished_tasks,
                   text_queue, control_queue, stop_event, overlay_vars,
                   hotkey_vars, next_sample, blocks, stream_active,
                   app_running>>

\* <Escape>: root.destroy()
destroy ==
    /\ root_alive
    /\ root_alive' = FALSE
    /\ UNCHANGED <<settings_vars, tick_i, state_buf, state_clear_next, playground_label,
                   label_configs, config_vars, rejected, callback_raised,
                   cuda_available, worker_vars, audio_queue, unfinished_tasks,
                   text_queue, control_queue, stop_event, overlay_vars,
                   hotkey_vars, next_sample, blocks, stream_active,
                   app_running>>

\* ------------------------------------------------------------ WhisperSettings calls
\* The arguments callers pass: valid and invalid ones.
SizeArgs == {"tiny", "large", "huge"}

LangArgs == {"en", "fr"}

TaskArgs == {"transcribe", "translate", "summarize"}

TempArgs == {0, 5, 20}

\* The keyword arguments of update, one key or two.
UpdateArgs ==
    << [key |-> "model_size", value |-> "large"],
       [key |-> "model_size", value |-> "huge"],
       [key |-> "language", value |-> "fr"],
       [key |-> "task", value |-> "summarize"],
       [key |-> "temperature", value |-> 5],
       [key |-> "temperature", value |-> 20],
       [key |-> "_VALID_SIZES", value |-> {"huge"}],
       [key |-> "_TEMP_MAX", value |-> 50] >>

Kwargs ==
    { <<UpdateArgs[i]>> : i \in 1..Len(UpdateArgs) }
      \cup { <<UpdateArgs[i], UpdateArgs[j]>> :
                i \in {1}, j \in {4, 6} }

\* The call leaves what r says; nothing else changes.
Call(r) ==
    /\ settings_ops < MaxOps
    /\ settings' = r.s
    /\ settings_raised' = r.raised
    /\ settings_ops' = settings_ops + 1
    /\ UNCHANGED <<playground_vars, config_vars, rejected, callback_raised,
                   cuda_available, worker_vars, audio_queue, unfinished_tasks,
                   text_queue, control_queue, stop_event, overlay_vars,
                   hotkey_vars, next_sample, blocks, stream_active,
                   app_running>>

NewSettings ==
    /\ ~settings.made
    /\ \E size \in SizeArgs, lang \in LangArgs, task \in TaskArgs,
          temp \in TempArgs : Call(post_init(size, lang, task, temp))

SetModelSize ==
    /\ settings.made
    /\ \E size \in SizeArgs : Call(set_model_size(settings, size))

SetLanguage ==
    /\ settings.made
    /\ \E lang \in LangArgs : Call(set_language(settings, lang))

SetTask ==
    /\ settings.made
    /\ \E task \in TaskArgs : Call(set_task(settings, task))

SetTemperature ==
    /\ settings.made
    /\ \E temp \in TempArgs : Call(set_temperature(settings, temp))

Update ==
    /\ settings.made
    /\ \E kwargs \in Kwargs : Call(update(settings, kwargs))

\* ------------------------------------------------------------ specifications
\* The program as main() wires it: open_stream asks the device for blocks of
\* blocksize = block_samples frames.
Next ==
    \/ Worker(SegmentLists)
    \/ audio_callback(block_samples, MaxBlocks)
    \/ Tick
    \/ \E k \in Keys : on_press(k)
    \/ \E k \in Keys : on_release(k)
    \/ Signal
    \/ Quit

Spec == Init /\ [][Next]_vars

\* The pipeline without the hotkey listener.
NextPipeline ==
    \/ Worker(SegmentLists)
    \/ audio_callback(block_samples, MaxBlocks)
    \/ Tick
    \/ Signal
    \/ Quit

SpecPipeline == Init /\ [][NextPipeline]_vars

\* The same with the scheduling the threads get: the worker thread, the Qt
\* timer and the audio callback are run again and again; nothing makes the
\* user quit or send a signal.
FairPipeline ==
    /\ SpecPipeline
    /\ WF_vars(Worker(SegmentLists))
    /\ WF_vars(Tick)
    /\ WF_vars(audio_callback(block_samples, MaxBlocks))

\* A machine without CUDA: torch.cuda.is_available() is False.
InitCpu == Init /\ ~cuda_available

\* An engine that hears the same word in every window.
OneSegment == { << <<SP, "a">> >> }

\* The three queues with their producers and consumers: capture, worker,
\* tick and hotkey listener.
NextQueues ==
    \/ Worker(OneSegment)
    \/ audio_callback(block_samples, MaxQueueBlocks)
    \/ Tick
    \/ \E k \in Keys : on_press(k)
    \/ \E k \in Keys : on_release(k)

SpecQueues == InitCpu /\ [][NextQueues]_vars

\* The block lengths a caller of audio_callback may deliver: shorter than a
\* window, a window, longer than the rolling buffer may grow.
BlockLens == {1, block_samples, max_buffer_samples + 1}

\* The worker fed with blocks of any of these lengths.
NextAnyLen ==
    \/ Worker(SegmentLists)
    \/ \E n \in BlockLens : audio_callback(n, MaxBlocks)
    \/ Tick

SpecAnyLen == InitCpu /\ [][NextAnyLen]_vars

\* The hotkey listener, fed with presses (auto-repeat included) and releases
\* of any key in any order, and the tick that drains the control queue.
NextHotkey ==
    \/ \E k \in AllKeys : on_press(k)
    \/ \E k \in AllKeys : on_release(k)
    \/ Tick

SpecHotkey == InitCpu /\ [][NextHotkey]_vars

\* The two caption displays: the overlay fed by the worker, and the
\* playground fed by its chunks.
NextCaptions ==
    \/ Worker(SegmentLists)
    \/ audio_callback(block_samples, MaxBlocks)
    \/ Tick
    \/ tick
    \/ destroy

SpecCaptions == InitCpu /\ [][NextCaptions]_vars

\* A WhisperSettings object and the calls made on it, in any order.
NextSettings ==
    \/ NewSettings
    \/ SetModelSize
    \/ SetLanguage
    \/ SetTask
    \/ SetTemperature
    \/ Update

SpecSettings == InitCpu /\ [][NextSettings]_vars

\* audio_callback called with any indata, also one the downmix or the
\* conversion cannot handle.
NextCapture ==
    \/ Worker(OneSegment)
    \/ Callback(block_samples, MaxBlocks, BOOLEAN)
    \/ Tick

SpecCapture == InitCpu /\ [][NextCapture]_vars

\* A caller constructs a Config with keyword arguments of its choice.
NewConfig ==
    /\ cfg_pc = "none"
    /\ \E k \in ConfigKwargs : cfg' = Config(k)
    /\ cfg_pc' = "constructed"
    /\ UNCHANGED <<settings_vars, rejected, callback_raised, playground_vars, cuda_available, worker_vars, audio_queue,
                   unfinished_tasks, text_queue, control_queue, stop_event,
                   overlay_vars, hotkey_vars, next_sample, blocks,
                   stream_active, app_running>>

\* The queues are created with the capacities of cfg and
\* TranscriberThread(cfg, ...).start() runs the worker with it.
StartComponents ==
    /\ cfg_pc = "constructed"
    /\ cfg_pc' = "started"
    /\ UNCHANGED <<settings_vars, cfg, rejected, callback_raised, playground_vars, cuda_available, worker_vars, audio_queue,
                   unfinished_tasks, text_queue, control_queue, stop_event,
                   overlay_vars, hotkey_vars, next_sample, blocks,
                   stream_active, app_running>>

\* Before cfg is constructed.
InitConfig ==
    /\ cfg = DefaultConfig
    /\ cfg_pc = "none"
    /\ settings = NoSettings
    /\ settings_raised = FALSE
    /\ settings_ops = 0
    /\ tick_i = 0
    /\ state_buf = <<>>
    /\ state_clear_next = FALSE
    /\ playground_label = Listening \o <<"...">>
    /\ label_configs = <<>>
    /\ root_alive = TRUE
    /\ cuda_available \in BOOLEAN
    /\ worker_pc = "start"
    /\ load_attempts = <<>>
    /\ attempt = 0
    /\ failed = {}
    /\ model = <<>>
    /\ device = IF cuda_available THEN "cuda" ELSE "cpu"
    /\ compute_type = IF cuda_available THEN "int8_float16" ELSE "int8"
    /\ buffer = <<>>
    /\ window = NoWindow
    /\ constructions = <<>>
    /\ warmups = <<>>
    /\ received = <<>>
    /\ emitted = <<>>
    /\ truncated = {}
    /\ audio_queue = <<>>
    /\ unfinished_tasks = 0
    /\ text_queue = <<>>
    /\ control_queue = <<>>
    /\ stop_event = FALSE
    /\ overlay_buffer = <<>>
    /\ label_text = Listening
    /\ visible = TRUE
    /\ toggles = 0
    /\ renders = <<>>
    /\ sentence = <<>>
    /\ rendered_src = 0
    /\ pressed = {}
    /\ fired = FALSE
    /\ rejected = {}
    /\ next_sample = 1
    /\ blocks = 0
    /\ stream_active = FALSE
    /\ callback_raised = FALSE
    /\ app_running = FALSE

NextConfig ==
    \/ NewConfig
    \/ StartComponents

\* The construction of the configuration and the start of the components.
SpecConfig == InitConfig /\ [][NextConfig]_vars

\* ------------------------------------------------------------ claims
\* A put on the audio queue, the text queue, the control queue in this step.
AudioPut == next_sample' # next_sample

TextPut == window'.samples # window.samples /\ window'.ok /\ window'.text # <<>>

TogglePut == fired' /\ ~fired

\* C1: a put on a queue that holds its capacity is rejected: the producer
\* goes on (the callback returns, the worker goes on with task_done, the
\* listener has fired), the new item is discarded and the queue keeps its
\* items in their order; a put on a queue below capacity appends the item;
\* and no queue ever holds more than its capacity.
C1_FullQueueRejects ==
    [][ /\ Len(audio_queue') <= audio_queue_size
        /\ Len(text_queue') <= text_queue_size
        /\ Len(control_queue') <= control_queue_size
        /\ AudioPut =>
             /\ blocks' = blocks + 1
             /\ audio_queue' = IF Len(audio_queue) = audio_queue_size
                               THEN audio_queue
                               ELSE Append(audio_queue, Block(block_samples))
        /\ TextPut =>
             /\ worker_pc' = "windows"
             /\ text_queue' = IF Len(text_queue) = text_queue_size
                              THEN text_queue
                              ELSE Append(text_queue,
                                       [text |-> window'.text,
                                        src |-> window'.samples[1]])
        /\ TogglePut =>
             control_queue' = IF Len(control_queue) = control_queue_size
                              THEN control_queue
                              ELSE Append(control_queue, "toggle")
      ]_vars

\* Every queue has rejected a put, and the text queue is full again.
C1_Witness ==
    /\ rejected = {"audio", "text", "control"}
    /\ Len(text_queue) = text_queue_size

\* Sample numbers in capture order.
Increasing(ss) == \A i \in 1..(Len(ss) - 1) : ss[i] < ss[i + 1]

\* A window is handed to _transcribe_segment in this step.
WindowStep == window'.samples # window.samples

\* C2: whatever the lengths of the blocks, every window handed to
\* transcription has exactly block_samples samples, and its samples were all
\* captured after those of the window before it, in capture order.
C2_WindowsExactAndOrdered ==
    [][ WindowStep =>
          /\ Len(window'.samples) = block_samples
          /\ Increasing(window.samples \o window'.samples)
      ]_vars

\* A window that starts after the first block_samples samples was sliced, with
\* samples of a later window left in the buffer.
C2_Witness ==
    /\ window.samples # <<>>
    /\ window.samples[1] > block_samples
    /\ buffer # <<>>
    /\ blocks = MaxBlocks

\* The last n items of a sequence.
LastN(ss, n) == [i \in 1..n |-> ss[Len(ss) - n + i]]

\* C3: after every accumulation step the rolling buffer holds at most
\* max_buffer_samples samples: all of the old buffer and the block when that
\* fits, else their last max_buffer_samples samples.
C3_BufferCapped ==
    [][ /\ Len(buffer') <= max_buffer_samples
        /\ (worker_pc = "get" /\ worker_pc' = "windows") =>
             LET all == buffer \o Head(audio_queue)
             IN  buffer' = IF Len(all) <= max_buffer_samples THEN all
                           ELSE LastN(all, max_buffer_samples)
      ]_vars

\* Just after a block was appended: the buffer is full and, no queue having
\* rejected a block, the samples between the latest window and the buffer were
\* trimmed.
C3_Witness ==
    /\ worker_pc = "windows"
    /\ Len(buffer) = max_buffer_samples
    /\ rejected = {}
    /\ window.samples # <<>>
    /\ buffer[1] > window.samples[block_samples] + 1

\* The sentence the i-th snippet of ss belongs to, up to that snippet: the
\* snippets after the latest sentence-terminal snippet before it, and itself.
SentenceUpTo(ss, i) ==
    Append(SinceSentenceEnd(SubSeq(ss, 1, i - 1)), ss[i])

\* C4: the text of every label.setText call of a tick is the space-joined
\* concatenation of the snippets consumed after the latest sentence-terminal
\* snippet before it, up to and including its own snippet; the label shows the
\* latest of them and the buffer holds the sentence still open.
C4_RenderedSentence ==
    LET all == sentence \o Snippets(renders)
    IN  /\ \A i \in 1..Len(renders) :
             renders[i].shown = join(<<SP>>, SentenceUpTo(all, Len(sentence) + i))
        /\ renders # <<>> => label_text = renders[Len(renders)].shown
        /\ overlay_buffer = join(<<SP>>, SinceSentenceEnd(all))

\* "Hello", "world.", "Next": a snippet was pending, and the latest tick
\* rendered a sentence-terminal snippet and then the first of a new sentence.
C4_Witness ==
    /\ sentence # <<>>
    /\ Len(renders) = 2
    /\ endswith(renders[1].snippet, SentenceEnd)
    /\ ~endswith(renders[2].snippet, SentenceEnd)
    /\ renders[1].shown = join(<<SP>>, Append(sentence, renders[1].snippet))
    /\ label_text = renders[2].snippet
    /\ overlay_buffer = label_text

\* The worker is in its steady-state loop.
SteadyPcs == {"loop", "get", "windows"}

InSteadyState == worker_pc \in SteadyPcs

\* C5: the worker enters the loop with the first candidate, in list order,
\* whose construction and warm-up both succeed: every candidate before it has
\* failed, it is the engine in use, no candidate after it is tried, and when
\* all but the last have failed the engine in use is CPU / int8.
C5_FirstWorkingCandidate ==
    /\ [](InSteadyState =>
            /\ attempt \in 1..Len(load_attempts)
            /\ failed = 1..(attempt - 1)
            /\ model = load_attempts[attempt]
            /\ device = load_attempts[attempt][1]
            /\ compute_type = load_attempts[attempt][2]
            /\ (failed = 1..(Len(load_attempts) - 1)
                  => model = <<"cpu", "int8">>))
    /\ [][ /\ (worker_pc = "warmup" /\ failed' = failed) =>
                worker_pc' \in {"warmup", "loop"}
           /\ InSteadyState => UNCHANGED <<attempt, failed, model, device,
                                           compute_type, load_attempts>>
         ]_vars

\* On a CUDA machine the three CUDA candidates failed and the worker waits for
\* audio with the CPU engine.
C5_Witness ==
    /\ cuda_available
    /\ failed = {1, 2, 3}
    /\ worker_pc = "get"
    /\ model = <<"cpu", "int8">>

\* C6: when every candidate has failed the worker has set the shutdown
\* signal and returned for good: it never is in the loop, it has dequeued no
\* block (every block the audio queue accepted is still in it), transcribed
\* no window and pushed no snippet.
C6_NoEngineNoWork ==
    /\ []((load_attempts # <<>> /\ failed = 1..Len(load_attempts)) =>
            /\ ~InSteadyState
            /\ buffer = <<>>
            /\ window = NoWindow
            /\ unfinished_tasks = Len(audio_queue)
            /\ text_queue = <<>>
            /\ renders = <<>>
            /\ rendered_src = 0)
    /\ [](worker_pc = "init_failed" =>
            stop_event /\ failed = 1..Len(load_attempts))
    /\ [][ /\ (load_attempts # <<>> /\ failed = 1..Len(load_attempts)
                 /\ worker_pc # "init_failed") =>
                worker_pc' \in {worker_pc, "init_failed"}
           /\ worker_pc = "init_failed" => worker_pc' = "init_failed"
         ]_vars

\* All four candidates failed while the capture went on: the audio queue is
\* full and has rejected a block.
C6_Witness ==
    /\ worker_pc = "init_failed"
    /\ cuda_available
    /\ Len(audio_queue) = audio_queue_size
    /\ "audio" \in rejected

\* C7: once every candidate has failed the whole pipeline shuts down: the
\* capture stops and the event loop of the overlay ends.
C7_PipelineShutsDown ==
    (worker_pc = "init_failed") ~> (~stream_active /\ ~app_running)

\* The source of every snippet waiting or rendered by the latest tick.
SnippetSources ==
    {text_queue[i].src : i \in 1..Len(text_queue)}
        \cup {renders[i].src : i \in 1..Len(renders)}

\* C8: a window whose transcription raises yields no snippet and the worker
\* goes on with the inner loop; a window transcribed to a non-empty text,
\* also one that follows a failed window, yields a put on the text queue; and
\* the worker leaves its loop only with the shutdown signal set.
C8_FailedWindowSkipped ==
    /\ [](~window.ok => window.samples[1] \notin SnippetSources)
    /\ [](worker_pc # "crashed")
    /\ [][ /\ (WindowStep /\ ~window'.ok) =>
                /\ text_queue' = text_queue
                /\ worker_pc' = "windows"
           /\ (WindowStep /\ window'.ok /\ window'.text # <<>>) =>
                /\ text_queue' =
                     IF Len(text_queue) >= text_queue_size THEN text_queue
                     ELSE Append(text_queue,
                              [text |-> window'.text,
                               src |-> window'.samples[1]])
                /\ worker_pc' = "windows"
           /\ (InSteadyState /\ ~InSteadyState') =>
                stop_event /\ worker_pc' = "exited"
         ]_vars

\* The window after a failed one was transcribed and its snippet is the
\* newest of the text queue.
C8_Witness ==
    /\ window.after_error
    /\ window.ok
    /\ text_queue # <<>>
    /\ text_queue[Len(text_queue)] =
         [text |-> window.text, src |-> window.samples[1]]

\* C9: with the shutdown signal set the worker dequeues no block and hands
\* no window to the transcription.
C9_NoWorkAfterSignal ==
    [][stop_event => UNCHANGED <<buffer, window>>]_vars

\* C10: snippets are rendered in the order of their windows: every tick
\* renders snippets of windows captured after the window of the snippet
\* rendered last, in capture order, and the snippets waiting in the text queue
\* are in capture order too.
C10_RenderedInCaptureOrder ==
    /\ [](Increasing(<<rendered_src>>
                     \o [i \in 1..Len(text_queue) |-> text_queue[i].src]))
    /\ [][ rendered_src' # rendered_src =>
             Increasing(<<rendered_src>>
                        \o [i \in 1..Len(renders') |-> renders'[i].src])
         ]_vars

\* A tick rendered two snippets after the text queue had rejected one.
C10_Witness ==
    /\ Len(renders) = 2
    /\ "text" \in rejected
    /\ renders[1].src < renders[2].src

\* C11: a tick flips the visibility once for every pending Toggle: it
\* empties the control queue and leaves the visibility as it was when it
\* consumed an even number of Toggles, negated when it consumed an odd number;
\* a tick with no pending Toggle, and every other step, leaves it unchanged.
C11_ToggleParity ==
    [][ IF Len(control_queue') < Len(control_queue)
        THEN /\ control_queue' = <<>>
             /\ toggles' = Len(control_queue)
             /\ visible' = IF Len(control_queue) % 2 = 0 THEN visible
                            ELSE ~visible
        ELSE visible' = visible
      ]_vars

\* A tick consumed two Toggles and the overlay, hidden by an earlier tick, is
\* still hidden.
C11_Witness ==
    /\ toggles = 2
    /\ ~visible
    /\ control_queue = <<>>

\* C12: fed with blocks of exactly block_samples samples, the worker hands
\* one window to the transcription per block it has dequeued, the window
\* being that block; nothing is trimmed; and whenever the worker is back at
\* its loop test or waits for a block, as many windows were emitted as blocks
\* were received and the rolling buffer is empty.
C12_OneWindowPerBlock ==
    /\ truncated = {}
    /\ Len(emitted) <= Len(received)
    /\ \A i \in 1..Len(emitted) : emitted[i] = received[i]
    /\ worker_pc \in {"loop", "get", "exited"} =>
         Len(emitted) = Len(received) /\ buffer = <<>>
    /\ worker_pc = "windows" =>
         Len(received) - Len(emitted) = (IF buffer = <<>> THEN 0 ELSE 1)

\* Every block the device delivered went through the worker: as many windows
\* as blocks, and an empty rolling buffer.
C12_Witness ==
    /\ worker_pc = "loop"
    /\ Len(received) = MaxBlocks
    /\ Len(emitted) = MaxBlocks
    /\ buffer = <<>>

\* The ranges of the configuration surface; temperature in tenths.
InRange(c) ==
    /\ c.sample_rate > 0
    /\ c.block_seconds > 0
    /\ c.model_size \in {"tiny", "base", "small", "medium", "large"}
    /\ c.task \in {"transcribe", "translate"}
    /\ c.audio_queue_size >= 1
    /\ c.text_queue_size >= 1
    /\ c.control_queue_size >= 1
    /\ c.gui_poll_interval_ms > 0
    /\ c.max_buffer_seconds > 0
    /\ c.beam_size >= 1
    /\ c.temperature \in 0..10

\* C13: a configuration with an out-of-range value is never constructed, so
\* no component is started with one.
C13_InvalidConfigRejected == cfg_pc # "none" => InRange(cfg)

\* C14: no call of the audio callback lets an exception out: whatever
\* fails while it handles a block, it returns normally, the audio queue
\* holding what it held, or that and the block when the put succeeded.
C14_CallbackNeverRaises ==
    [][ AudioPut =>
          /\ ~callback_raised'
          /\ audio_queue' \in
                {audio_queue, Append(audio_queue, Block(block_samples))}
          /\ (Len(audio_queue) = audio_queue_size =>
                audio_queue' = audio_queue)
      ]_vars

\* The chord is complete.
ChordHeld == combo \subseteq pressed

\* C15: the listener attempts a Toggle only in the step that completes the
\* chord: the listener has fired exactly while the chord is held, so a held
\* chord (auto-repeat, other keys) attempts nothing more and the next attempt
\* needs a release of a chord key and a new completion; the control queue
\* grows only by one Toggle in such a step, and an attempt on a full control
\* queue leaves it as it is, nothing being sent for it later.
C15_OneTogglePerChord ==
    /\ [](fired <=> ChordHeld)
    /\ [][ /\ TogglePut => ~ChordHeld /\ ChordHeld'
           /\ (~ChordHeld /\ ChordHeld') =>
                control_queue' =
                    IF Len(control_queue) = control_queue_size
                    THEN control_queue
                    ELSE Append(control_queue, "toggle")
           /\ ~(~ChordHeld /\ ChordHeld') =>
                control_queue' \in {control_queue, <<>>}
         ]_vars

\* The Toggle of the chord now held was rejected by a full control queue,
\* a tick has emptied the queue since, another key went down too, and
\* nothing was sent for the chord.
C15_Witness ==
    /\ ChordHeld
    /\ fired
    /\ "x" \in pressed
    /\ "control" \in rejected
    /\ toggles = control_queue_size
    /\ control_queue = <<>>

\* The candidates of the warm-up calls, in call order.
WarmedUp == [i \in 1..Len(warmups) |-> warmups[i].candidate]

\* C16: every candidate whose construction returned gets exactly one
\* warm-up, on block_samples zeros, before anything else is done with it; a
\* failed warm-up takes the worker to the next candidate as a failed
\* construction does; a window of captured audio is transcribed only with
\* the engine whose warm-up returned; and in the steady-state loop and after
\* it no engine is constructed.
C16_WarmUpOncePerEngine ==
    /\ [](/\ constructions =
              IF worker_pc = "warmup" THEN Append(WarmedUp, attempt)
              ELSE WarmedUp
          /\ Increasing(constructions)
          /\ \A i \in 1..Len(warmups) :
               warmups[i].samples = Zeros(block_samples)
          /\ emitted # <<>> =>
               /\ warmups # <<>>
               /\ warmups[Len(warmups)].candidate \notin failed
               /\ model = load_attempts[warmups[Len(warmups)].candidate])
    /\ [][ /\ failed' # failed =>
                /\ worker_pc \in {"construct", "warmup"}
                /\ failed' = failed \cup {attempt}
                /\ attempt' = attempt + 1
                /\ worker_pc' = "construct"
           /\ worker_pc \in SteadyPcs \cup {"exited"} =>
                UNCHANGED <<constructions, warmups, model>>
         ]_vars

\* The first engine failed in its warm-up, the second in its construction,
\* the third was constructed and warmed up and has transcribed a window.
C16_Witness ==
    /\ constructions = <<1, 3>>
    /\ WarmedUp = <<1, 3>>
    /\ failed = {1, 2}
    /\ emitted # <<>>

\* The concatenation of the sequences of a sequence.
RECURSIVE Concat(_)
Concat(seqs) == IF seqs = <<>> THEN <<>> ELSE Head(seqs) \o Concat(Tail(seqs))

\* The samples of ss the trim has not removed.
Untrimmed(ss) == SelectSeq(ss, LAMBDA x : x \notin truncated)

\* C17: whatever the lengths of the blocks, the emitted windows followed by
\* the rolling buffer are the received blocks without the samples the trim
\* removed, each sample once and in capture order: windows do not overlap,
\* leave no gap but the trimmed samples, and with nothing trimmed no
\* received sample is lost, duplicated or reordered.
C17_WindowsContiguous ==
    /\ Concat(emitted) \o buffer = Untrimmed(Concat(received))
    /\ Increasing(Concat(emitted) \o buffer)
    /\ truncated \subseteq Range(Concat(received))
    /\ truncated = {} => Concat(emitted) \o buffer = Concat(received)

\* Every block the device delivered was received, samples were trimmed
\* between two windows, and a partial window waits in the buffer.
C17_Witness ==
    /\ Len(received) = MaxBlocks
    /\ truncated # {}
    /\ Len(emitted) >= 2
    /\ \E i \in 1..(Len(emitted) - 1) :
         emitted[i + 1][1] > emitted[i][block_samples] + 1
    /\ buffer # <<>>

\* t ends with s.
IsSuffix(s, t) ==
    /\ Len(s) <= Len(t)
    /\ SubSeq(t, Len(t) - Len(s) + 1, Len(t)) = s

\* C18: a tick that finds snippets in the text queue empties it and calls
\* label.setText once per snippet, in queue order, with a text that ends
\* with the snippet; the label shows the text of the last call; and no other
\* step takes a snippet off the text queue.
C18_NoSnippetDiscarded ==
    [][ Len(text_queue') < Len(text_queue) =>
          /\ text_queue' = <<>>
          /\ Len(renders') = Len(text_queue)
          /\ \A i \in 1..Len(text_queue) :
               /\ renders'[i].snippet = text_queue[i].text
               /\ renders'[i].src = text_queue[i].src
               /\ IsSuffix(text_queue[i].text, renders'[i].shown)
          /\ label_text' = renders'[Len(renders')].shown
      ]_vars

\* A tick found the text queue full and rendered every snippet of it, the
\* first one behind the text of an earlier tick.
C18_Witness ==
    /\ Len(renders) = text_queue_size
    /\ text_queue = <<>>
    /\ sentence # <<>>
    /\ renders[1].shown # renders[1].snippet
    /\ IsSuffix(renders[1].snippet, renders[1].shown)
    /\ label_text = renders[Len(renders)].shown

\* The last item of a sequence.
Last(ss) == ss[Len(ss)]

\* What the overlay shows once a snippet was rendered: a non-empty text, the
\* one of its latest label.setText call, every call having passed a
\* non-empty text; and the buffer is empty after a sentence-terminal snippet.
OverlayKeepsSentence ==
    /\ \A i \in 1..Len(renders) : renders[i].shown # <<>>
    /\ rendered_src # 0 => label_text # <<>>
    /\ renders # <<>> =>
         /\ label_text = Last(renders).shown
         /\ endswith(Last(renders).snippet, SentenceEnd) =>
              overlay_buffer = <<>> /\ endswith(label_text, SentenceEnd)

\* What the playground shows once a chunk was rendered: a non-empty text,
\* the one of its latest label.config call.
PlaygroundShowsLast ==
    label_configs # <<>> =>
        playground_label # <<>> /\ playground_label = Last(label_configs)

\* C19 as stated: no empty string is ever sent to the render sink, of the
\* overlay or of the playground, and what is displayed after the first
\* snippet is the non-empty text of the latest render.
C19_NeverEmptyRender ==
    /\ OverlayKeepsSentence
    /\ PlaygroundShowsLast
    /\ \A i \in 1..Len(label_configs) : label_configs[i] # <<>>

\* C19, amended: the overlay never passes an empty string to label.setText;
\* the tick of the playground that follows a sentence-terminal chunk, and
\* only that one, first sets the label to the empty string and then, in the
\* same call, to the new text, the completed sentence having been displayed
\* until then; in both, what is displayed after the first snippet is the
\* non-empty text of the latest render, and it changes only by a render.
C19_SentenceStaysDisplayed ==
    /\ [](OverlayKeepsSentence /\ PlaygroundShowsLast)
    /\ [](state_clear_next =>
            endswith(playground_label, SentenceEnd)
              /\ playground_label = state_buf)
    /\ [][ /\ label_text' # label_text =>
                Len(text_queue') < Len(text_queue)
           /\ playground_label' # playground_label => tick_i' # tick_i
           /\ tick_i' # tick_i =>
                label_configs' =
                    IF state_clear_next THEN << <<>>, playground_label' >>
                    ELSE << playground_label' >>
         ]_vars

\* The overlay shows a completed sentence with its buffer cleared, and the
\* playground has just replaced a completed sentence, by the empty string
\* and then by the first chunk of the next one.
C19_Witness ==
    /\ renders # <<>>
    /\ endswith(Last(renders).snippet, SentenceEnd)
    /\ overlay_buffer = <<>>
    /\ label_text # <<>>
    /\ Len(label_configs) = 2
    /\ label_configs[1] = <<>>
    /\ playground_label = label_configs[2]
    /\ ~state_clear_next

\* C20: whatever the lengths of the blocks, every window the worker
\* acknowledges with task_done finds an unfinished block to acknowledge, so
\* task_done never raises, and the worker leaves its steady-state loop only
\* with the shutdown signal set.
C20_AckNeverRaises ==
    /\ [](worker_pc # "crashed")
    /\ [][ /\ WindowStep =>
                /\ unfinished_tasks >= 1
                /\ unfinished_tasks' = unfinished_tasks - 1
           /\ (InSteadyState /\ ~InSteadyState') =>
                stop_event /\ worker_pc' = "exited"
         ]_vars

\* C21: whatever calls are made on a WhisperSettings object, and whether
\* they return or raise, its model size is one of tiny, base, small, medium,
\* large, its task is transcribe or translate, its temperature lies in
\* [0.0, 1.0] (0..10 tenths); and a call that raises leaves the object as it
\* was.
C21_SettingsStayValid ==
    /\ [](settings.made =>
            /\ settings.model_size \in
                 {"tiny", "base", "small", "medium", "large"}
            /\ settings.task \in {"transcribe", "translate"}
            /\ settings.temperature \in 0..10)
    /\ [][ (settings_ops' # settings_ops /\ settings_raised') =>
             settings' = settings ]_vars

====
